---- MODULE Spec2Model ----
(***************************************************************************)
(* Model of fab/image.py: the Image tile and Image.blit_onto.              *)
(*                                                                         *)
(* Bounds are numbers in mm; the model draws them from small integer sets  *)
(* and carries every quotient the code forms as an exact fraction          *)
(* <<numerator, denominator>> (the code's "/" on float bounds is true      *)
(* division; on these small values the float result truncates and rounds   *)
(* like the exact one).                                                    *)
(*                                                                         *)
(* numpy arrays are modelled as the heap sees them: a buffer holds the     *)
(* samples, and a tile's .array is a reference (buffer name + window), so  *)
(* that basic slicing yields a view and Image.copy shares the buffer.      *)
(***************************************************************************)
EXTENDS Integers, Sequences, FiniteSets, TLC

(* ---------------------------------------------------------------- bounds *)
MaxDim == 2      \* largest width / height of a drawn tile, in pixels
MaxCoord == 3    \* x and y bounds are drawn from 0 .. MaxCoord
MaxVal == 2      \* source samples are drawn from 0 .. MaxVal
MaxCalls == 2    \* blit_onto calls made on one target

UINT16_MAX == 65535

(* ------------------------------------------------------------ arithmetic *)
Max(a, b) == IF a >= b THEN a ELSE b
Min(a, b) == IF a <= b THEN a ELSE b
Abs(a) == IF a < 0 THEN 0 - a ELSE a

\* floor(n / d) for d > 0
FloorDiv(n, d) == IF n >= 0 THEN n \div d ELSE 0 - ((0 - n + d - 1) \div d)

\* Python int(n / d): truncation toward zero, for d # 0
PyInt(n, d) ==
    LET q == Abs(n) \div Abs(d)
    IN  IF (n < 0) = (d < 0) THEN q ELSE 0 - q

(* ------------------------------------------------------------------ heap *)
\* a numpy buffer is its shape and its samples, indexed (row, col) from 0;
\* np.zeros((h, w), dtype=np.uint16)
NewBuffer(h, w) ==
    [rows |-> h, cols |-> w,
     cells |-> [p \in (0 .. h - 1) \X (0 .. w - 1) |-> 0]]

\* a reference to a whole buffer b named n
WholeRef(n, b) == [buf |-> n, r0 |-> 0, c0 |-> 0, nr |-> b.rows, nc |-> b.cols]

\* Python slice a[lo:hi] on an axis of length n: the kept range <<start, stop>>
PyIndex(k, n) == IF k < 0 THEN Max(k + n, 0) ELSE Min(k, n)
PySlice(lo, hi, n) ==
    LET s == PyIndex(lo, n)
        e == PyIndex(hi, n)
    IN  <<s, Max(s, e)>>

\* ref[rlo:rhi, clo:chi] : a view on the same buffer
SliceRef(ref, rlo, rhi, clo, chi) ==
    LET rs == PySlice(rlo, rhi, ref.nr)
        cs == PySlice(clo, chi, ref.nc)
    IN  [buf |-> ref.buf,
         r0 |-> ref.r0 + rs[1], c0 |-> ref.c0 + cs[1],
         nr |-> rs[2] - rs[1], nc |-> cs[2] - cs[1]]

(* ----------------------------------------------------------------- tiles *)
None == << >>

\* Image.__init__(w, h) with its array allocated as buffer n (zero-filled)
Image_init(w, h, n) ==
    [array |-> WholeRef(n, NewBuffer(h, w)),
     width |-> w, height |-> h,
     xmin |-> None, ymin |-> None, zmin |-> None,
     xmax |-> None, ymax |-> None, zmax |-> None]

\* Image.from_region(region, mm_per_unit)
from_region(region, mm_per_unit, n) ==
    [Image_init(region.ni, region.nj, n) EXCEPT
        !.xmin = region.X[0] * mm_per_unit,
        !.xmax = region.X[region.ni] * mm_per_unit,
        !.ymin = region.Y[0] * mm_per_unit,
        !.ymax = region.Y[region.nj] * mm_per_unit,
        !.zmin = region.Z[0] * mm_per_unit,
        !.zmax = region.Z[region.nk] * mm_per_unit]

\* Image.copy(): a new header whose array is the SAME reference
copy(self) ==
    [Image_init(self.width, self.height, "fresh") EXCEPT
        !.array = self.array,
        !.xmin = self.xmin, !.ymin = self.ymin, !.zmin = self.zmin,
        !.xmax = self.xmax, !.ymax = self.ymax, !.zmax = self.zmax]

\* array.shape
Shape(ref) == <<ref.nr, ref.nc>>

(* ------------------------------------------------------------------ state *)
VARIABLES
    heap,        \* the numpy buffers: tbuf (target's), sbuf (source's), wbuf (zoom output)
    target,      \* the target Image
    source,      \* the caller's source Image
    work,        \* blit_onto's local "source" after source = source.copy()
    z_scale,     \* local, a fraction <<n, d>>
    pixel_scale, \* local, a pair of fractions (rows, columns)
    offs,        \* locals <<jmin, imin>> of lines 128-132
    subtarget,   \* local view on target.array
    ret,         \* what the call returned: "pending", "target" or "None"
    pc,          \* position inside blit_onto, "idle" between calls
    calls,       \* number of calls started on this target
    pre          \* history: heap, target and source as they were when the call began
                 \* (between calls: as they are)

vars == <<heap, target, source, work, z_scale, pixel_scale, offs, subtarget,
          ret, pc, calls, pre>>

(* ----------------------------------------------------- inputs of the model *)
Coords == 0 .. MaxCoord
Spans == {s \in Coords \X Coords : s[1] < s[2]}
TargetSpans == {<<1, 2>>, <<1, 3>>}
TargetZ == {<<1, 1>>, <<1, 3>>}
SourceZ == {<<0, 4>>}

\* a Region with ni x nj x 1 cells over the given box
Region(ni, nj, xs, ys, zs) ==
    [ni |-> ni, nj |-> nj, nk |-> 1,
     X |-> [k \in 0 .. ni |-> IF k = ni THEN xs[2] ELSE xs[1]],
     Y |-> [k \in 0 .. nj |-> IF k = nj THEN ys[2] ELSE ys[1]],
     Z |-> [k \in 0 .. 1 |-> IF k = 1 THEN zs[2] ELSE zs[1]]]

\* bounds written by the renderer into a constructed Image (image.py:16-18)
SetBounds(img, xs, ys, zs) ==
    [img EXCEPT !.xmin = xs[1], !.xmax = xs[2],
                !.ymin = ys[1], !.ymax = ys[2],
                !.zmin = zs[1], !.zmax = zs[2]]

\* a w x h tile over a box: from a Region when it has pixels, else constructed
\* empty and given its bounds
Tile(w, h, xs, ys, zs, n) ==
    IF w >= 1 /\ h >= 1
    THEN from_region(Region(w, h, xs, ys, zs), 1, n)
    ELSE SetBounds(Image_init(w, h, n), xs, ys, zs)

\* contents the renderer leaves in a source: a and b in a checkerboard
Fill(h, w, a, b) ==
    [rows |-> h, cols |-> w,
     cells |-> [p \in (0 .. h - 1) \X (0 .. w - 1) |->
                  IF (p[1] + p[2]) % 2 = 0 THEN a ELSE b]]

NoBuffer == NewBuffer(0, 0)
NoRef == WholeRef("none", NoBuffer)
NoTile == Image_init(0, 0, "none")

(* ------------------------------------------------ blit_onto: the formulas *)
\* sample (r, c) of the array a reference denotes
Read(h, ref, r, c) == h[ref.buf].cells[<<ref.r0 + r, ref.c0 + c>>]

\* variant: the source's own z range over the target's
ZScale_SourceRange(src, tgt) ==
    IF tgt.zmax - tgt.zmin = 0
    THEN <<1, 1>>
    ELSE <<src.zmax - src.zmin, tgt.zmax - tgt.zmin>>

\* variant: the fallback of a flat target is 0
ZScale_ZeroFallback(src, tgt) ==
    IF tgt.zmax - tgt.zmin = 0
    THEN <<0, 1>>
    ELSE <<src.zmax - tgt.zmin, tgt.zmax - tgt.zmin>>

\* lines 77-81: z_scale, 1 when the division raises ZeroDivisionError
ZScale(src, tgt) ==
    IF tgt.zmax - tgt.zmin = 0
    THEN <<1, 1>>
    ELSE <<src.zmax - tgt.zmin, tgt.zmax - tgt.zmin>>

\* lines 83-87: (target pixels per mm) / (source pixels per mm), rows then columns
PixelScale(src, tgt) ==
    << <<tgt.height * (src.ymax - src.ymin), (tgt.ymax - tgt.ymin) * src.height>>,
       <<tgt.width * (src.xmax - src.xmin), (tgt.xmax - tgt.xmin) * src.width>> >>

\* line 89: the test of the early return
ZeroScale(ps) == ps[1][1] = 0 \/ ps[2][1] = 0

\* zoom's output length on an axis of n samples, int(round(n * f)); a tie may
\* round either way (Python 2 rounds it away from zero, Python 3 to even)
ZoomLens(n, f) ==
    LET up == FloorDiv(2 * n * f[1] + f[2], 2 * f[2])
        tie == (2 * n * f[1]) % (2 * f[2]) = f[2]
    IN  IF tie THEN {up - 1, up} ELSE {up}

\* order-0 zoom: output index o reads the input sample nearest to
\* o * (n - 1) / (m - 1), n input and m output samples
ZoomIndex(o, n, m) ==
    IF m > 1 THEN FloorDiv(2 * o * (n - 1) + (m - 1), 2 * (m - 1)) ELSE 0

\* zoom's store of the value v * z into a uint16 output: rounded, kept in range
ToUint16(v, z) ==
    LET n == IF z[2] > 0 THEN v * z[1] ELSE 0 - v * z[1]
        d == Abs(z[2])
    IN  IF n <= 0 THEN 0 ELSE Min(FloorDiv(2 * n + d, 2 * d), UINT16_MAX)

\* lines 93-95: zoom(array[::-1, :] * z_scale, pixel_scale, output=uint16, order=0)
\* with output shape oh x ow
Zoom(h, ref, z, oh, ow) ==
    [rows |-> oh, cols |-> ow,
     cells |-> [p \in (0 .. oh - 1) \X (0 .. ow - 1) |->
        ToUint16(Read(h, ref, ref.nr - 1 - ZoomIndex(p[1], ref.nr, oh),
                              ZoomIndex(p[2], ref.nc, ow)), z)]]

\* lines 102-103, 108-109, 114-115, 120-121: the cut indices of the four clips
TrimImin(src, tgt) == PyInt(src.width * (tgt.xmin - src.xmin), src.xmax - src.xmin)
TrimImax(src, tgt) == PyInt(src.width * (tgt.xmax - src.xmax), src.xmax - src.xmin)
TrimJmin(src, tgt) == PyInt(src.width * (tgt.ymin - src.ymin), src.ymax - src.ymin)
TrimJmax(src, tgt) == PyInt(src.width * (tgt.ymax - src.ymax), src.ymax - src.ymin)

\* lines 128-132: the placement offsets
PlaceImin(src, tgt) == PyInt(tgt.width * (src.xmin - tgt.xmin), tgt.xmax - tgt.xmin)
PlaceJmin(src, tgt) == PyInt(tgt.height * (src.ymin - tgt.ymin), tgt.ymax - tgt.ymin)

\* variant: copyto without the where mask
MergeInto_Overwrite(h, sub, arr) ==
    [h EXCEPT ![sub.buf].cells =
        [p \in DOMAIN h[sub.buf].cells |->
            LET r == p[1] - sub.r0
                c == p[2] - sub.c0
            IN  IF r >= 0 /\ r < sub.nr /\ c >= 0 /\ c < sub.nc
                THEN Read(h, arr, r, c)
                ELSE h[sub.buf].cells[p]]]

\* lines 142-145: copyto(subtarget, array, where = array > subtarget)
MergeInto(h, sub, arr) ==
    [h EXCEPT ![sub.buf].cells =
        [p \in DOMAIN h[sub.buf].cells |->
            LET r == p[1] - sub.r0
                c == p[2] - sub.c0
            IN  IF /\ r >= 0 /\ r < sub.nr /\ c >= 0 /\ c < sub.nc
                   /\ Read(h, arr, r, c) > h[sub.buf].cells[p]
                THEN Read(h, arr, r, c)
                ELSE h[sub.buf].cells[p]]]

(* --------------------------------------------------------- initial states *)
\* targets: w x h pixels (possibly none) over a square box, zero-filled
Targets ==
    {Tile(w, h, xs, xs, zs, "tbuf") :
        w \in 0 .. MaxDim, h \in 0 .. MaxDim,
        xs \in TargetSpans, zs \in TargetZ}

\* every output length zoom can pick for this pair is at least one pixel
Zoomable(src, tgt) ==
    \/ ZeroScale(PixelScale(src, tgt))
    \/ /\ \A m \in ZoomLens(src.height, PixelScale(src, tgt)[1]) : m >= 1
       /\ \A m \in ZoomLens(src.width, PixelScale(src, tgt)[2]) : m >= 1

\* contents the renderer leaves in a source: one value, or a checkerboard
\* of it with 0
Contents(img) ==
    {Fill(img.height, img.width, a, a) : a \in 1 .. MaxVal}
    \cup {Fill(img.height, img.width, a, 0) : a \in 1 .. MaxVal}

\* the scenario of a 2x2 tile of 1000s over the middle of a 4x4 target
ScenarioTarget == Tile(4, 4, <<0, 4>>, <<0, 4>>, <<0, 10>>, "tbuf")
ScenarioSource == Tile(2, 2, <<1, 3>>, <<1, 3>>, <<5, 15>>, "sbuf")
ScenarioFill == Fill(2, 2, 1000, 1000)

\* sources of the first call on a target: square tiles of at least one pixel
\* over any box
Sources ==
    {Tile(w, w, xs, ys, zs, "sbuf") :
        w \in 1 .. MaxDim, xs \in Spans, ys \in Spans, zs \in SourceZ}

\* sources of the later calls: one-pixel tiles over the boxes targets have
LaterSources ==
    {Tile(1, 1, xs, ys, zs, "sbuf") :
        xs \in TargetSpans, ys \in TargetSpans, zs \in SourceZ}

\* the <<source, samples>> pairs call number n + 1 is made with
Inputs(n) ==
    IF n = 0
    THEN UNION {{<<src, buf>> : buf \in Contents(src)} : src \in Sources}
         \cup {<<ScenarioSource, ScenarioFill>>}
    ELSE UNION {{<<src, buf>> : buf \in Contents(src)} : src \in LaterSources}

\* between calls: no source, no locals
Idle(h, tgt) ==
    [heap |-> [tbuf |-> h, sbuf |-> NoBuffer, wbuf |-> NoBuffer, none |-> NoBuffer],
     target |-> tgt, source |-> NoTile]

\* a constructed target, zero-filled, before the first call
Init ==
    \E tgt \in Targets \cup {ScenarioTarget} :
        /\ heap = Idle(NewBuffer(tgt.height, tgt.width), tgt).heap
        /\ target = tgt
        /\ source = NoTile
        /\ work = NoTile
        /\ z_scale = <<1, 1>>
        /\ pixel_scale = << <<1, 1>>, <<1, 1>> >>
        /\ offs = <<0, 0>>
        /\ subtarget = NoRef
        /\ ret = "pending"
        /\ pc = "idle"
        /\ calls = 0
        /\ pre = Idle(NewBuffer(tgt.height, tgt.width), tgt)

(* ------------------------------------------------- blit_onto, step by step *)
\* the caller composites one more rendered tile: blit_onto(src, target)
Call ==
    /\ pc = "idle"
    /\ calls < MaxCalls
    /\ \E in \in Inputs(calls) :
          /\ Zoomable(in[1], target)
          /\ source' = in[1]
          /\ heap' = [heap EXCEPT !.sbuf = in[2]]
          /\ pre' = [heap |-> heap', target |-> target, source |-> in[1]]
    /\ pc' = "call"
    /\ calls' = calls + 1
    /\ UNCHANGED <<target, work, z_scale, pixel_scale, offs, subtarget, ret>>

\* variant: the target takes the source's zmax before the early return
ComputeScales_AdoptsZmax ==
    /\ pc = "call"
    /\ z_scale' = ZScale(source, target)
    /\ pixel_scale' = PixelScale(source, target)
    /\ IF ZeroScale(pixel_scale')
       THEN /\ pc' = "returned" /\ ret' = "None"
            /\ target' = [target EXCEPT !.zmax = source.zmax]
       ELSE pc' = "copy" /\ ret' = ret /\ target' = target
    /\ UNCHANGED <<heap, source, work, offs, subtarget, calls, pre>>

\* lines 76-89: the two scales; a zero pixel scale returns at once (a bare
\* "return", so the caller receives None)
ComputeScales ==
    /\ pc = "call"
    /\ z_scale' = ZScale(source, target)
    /\ pixel_scale' = PixelScale(source, target)
    /\ IF ZeroScale(pixel_scale')
       THEN pc' = "returned" /\ ret' = "None"
       ELSE pc' = "copy" /\ ret' = ret
    /\ UNCHANGED <<heap, target, source, work, offs, subtarget, calls, pre>>

\* line 92: source = source.copy()
Copy ==
    /\ pc = "copy"
    /\ work' = copy(source)
    /\ pc' = "resample"
    /\ UNCHANGED <<heap, target, source, z_scale, pixel_scale, offs, subtarget,
                   ret, calls, pre>>

\* variant: the zoomed samples are stored in the copy's current buffer
Resample_InPlace ==
    /\ pc = "resample"
    /\ \E oh \in ZoomLens(work.array.nr, pixel_scale[1]),
          ow \in ZoomLens(work.array.nc, pixel_scale[2]) :
          LET out == Zoom(heap, work.array, z_scale, oh, ow)
          IN  /\ heap' = [heap EXCEPT ![work.array.buf] = out]
              /\ work' = [work EXCEPT !.array = WholeRef(work.array.buf, out),
                                      !.height = out.rows, !.width = out.cols]
    /\ pc' = "trim_xmin"
    /\ UNCHANGED <<target, source, z_scale, pixel_scale, offs, subtarget,
                   ret, calls, pre>>

\* lines 93-98: the zoomed array is a new buffer; height and width follow it
Resample ==
    /\ pc = "resample"
    /\ \E oh \in ZoomLens(work.array.nr, pixel_scale[1]),
          ow \in ZoomLens(work.array.nc, pixel_scale[2]) :
          LET out == Zoom(heap, work.array, z_scale, oh, ow)
          IN  /\ heap' = [heap EXCEPT !.wbuf = out]
              /\ work' = [work EXCEPT !.array = WholeRef("wbuf", out),
                                      !.height = out.rows, !.width = out.cols]
    /\ pc' = "trim_xmin"
    /\ UNCHANGED <<target, source, z_scale, pixel_scale, offs, subtarget,
                   ret, calls, pre>>

\* lines 101-105
TrimXmin ==
    /\ pc = "trim_xmin"
    /\ IF target.xmin > work.xmin
       THEN LET imin == TrimImin(work, target)
            IN  work' = [work EXCEPT
                    !.xmin = target.xmin,
                    !.array = SliceRef(@, 0, @.nr, imin, @.nc)]
       ELSE work' = work
    /\ pc' = "trim_xmax"
    /\ UNCHANGED <<heap, target, source, z_scale, pixel_scale, offs, subtarget,
                   ret, calls, pre>>

\* variant: the right clip also runs when the two xmax are equal
TrimXmax_Inclusive ==
    /\ pc = "trim_xmax"
    /\ IF target.xmax <= work.xmax
       THEN LET imax == TrimImax(work, target)
            IN  work' = [work EXCEPT
                    !.xmax = target.xmax,
                    !.array = SliceRef(@, 0, @.nr, 0, imax)]
       ELSE work' = work
    /\ pc' = "trim_ymin"
    /\ UNCHANGED <<heap, target, source, z_scale, pixel_scale, offs, subtarget,
                   ret, calls, pre>>

\* lines 107-111
TrimXmax ==
    /\ pc = "trim_xmax"
    /\ IF target.xmax < work.xmax
       THEN LET imax == TrimImax(work, target)
            IN  work' = [work EXCEPT
                    !.xmax = target.xmax,
                    !.array = SliceRef(@, 0, @.nr, 0, imax)]
       ELSE work' = work
    /\ pc' = "trim_ymin"
    /\ UNCHANGED <<heap, target, source, z_scale, pixel_scale, offs, subtarget,
                   ret, calls, pre>>

\* lines 113-117
TrimYmin ==
    /\ pc = "trim_ymin"
    /\ IF target.ymin > work.ymin
       THEN LET jmin == TrimJmin(work, target)
            IN  work' = [work EXCEPT
                    !.ymin = target.ymin,
                    !.array = SliceRef(@, jmin, @.nr, 0, @.nc)]
       ELSE work' = work
    /\ pc' = "trim_ymax"
    /\ UNCHANGED <<heap, target, source, z_scale, pixel_scale, offs, subtarget,
                   ret, calls, pre>>

\* lines 119-123
TrimYmax ==
    /\ pc = "trim_ymax"
    /\ IF target.ymax < work.ymax
       THEN LET jmax == TrimJmax(work, target)
            IN  work' = [work EXCEPT
                    !.ymax = target.ymax,
                    !.array = SliceRef(@, 0, jmax, 0, @.nc)]
       ELSE work' = work
    /\ pc' = "refresh"
    /\ UNCHANGED <<heap, target, source, z_scale, pixel_scale, offs, subtarget,
                   ret, calls, pre>>

\* line 126: source.height, source.width = source.array.shape
RefreshShape ==
    /\ pc = "refresh"
    /\ work' = [work EXCEPT !.height = Shape(work.array)[1],
                            !.width = Shape(work.array)[2]]
    /\ pc' = "place"
    /\ UNCHANGED <<heap, target, source, z_scale, pixel_scale, offs, subtarget,
                   ret, calls, pre>>

\* lines 128-140: offsets, the window on the target, the shrink to fit it
Place ==
    /\ pc = "place"
    /\ LET imin == PlaceImin(work, target)
           jmin == PlaceJmin(work, target)
           sub == SliceRef(target.array, jmin, jmin + work.height,
                                         imin, imin + work.width)
       IN  /\ offs' = <<jmin, imin>>
           /\ subtarget' = sub
           /\ IF Shape(sub) # Shape(work.array)
              THEN work' = [work EXCEPT
                      !.array = SliceRef(@, 0, Shape(sub)[1], 0, Shape(sub)[2])]
              ELSE work' = work
    /\ pc' = "merge"
    /\ UNCHANGED <<heap, target, source, z_scale, pixel_scale, ret, calls, pre>>

\* lines 142-145
Merge ==
    /\ pc = "merge"
    /\ heap' = MergeInto(heap, subtarget, work.array)
    /\ pc' = "return"
    /\ UNCHANGED <<target, source, work, z_scale, pixel_scale, offs, subtarget,
                   ret, calls, pre>>

\* line 147: return target
Return ==
    /\ pc = "return"
    /\ ret' = "target"
    /\ pc' = "returned"
    /\ UNCHANGED <<heap, target, source, work, z_scale, pixel_scale, offs,
                   subtarget, calls, pre>>

\* the frame of the finished call is gone (its locals with it) and the
\* caller lets go of the source
Release ==
    /\ pc = "returned"
    /\ heap' = Idle(heap.tbuf, target).heap
    /\ source' = NoTile
    /\ work' = NoTile
    /\ z_scale' = <<1, 1>>
    /\ pixel_scale' = << <<1, 1>>, <<1, 1>> >>
    /\ offs' = <<0, 0>>
    /\ subtarget' = NoRef
    /\ ret' = "pending"
    /\ pc' = "idle"
    /\ pre' = Idle(heap.tbuf, target)
    /\ UNCHANGED <<target, calls>>

Next ==
    \/ Call
    \/ ComputeScales
    \/ Copy
    \/ Resample
    \/ TrimXmin
    \/ TrimXmax
    \/ TrimYmin
    \/ TrimYmax
    \/ RefreshShape
    \/ Place
    \/ Merge
    \/ Return
    \/ Release

Spec == Init /\ [][Next]_vars

(* ------------------------------------------------------------- properties *)
\* the call went past the early return and the merge has run
MergeDone == pc = "return" \/ (pc = "returned" /\ ret = "target")

\* the early return of line 89 was taken
EarlyReturned == pc = "returned" /\ ret = "None"

TCells == heap.tbuf.cells
PreTCells == pre.heap.tbuf.cells

\* cell p of the target lies in the placed window: offs is its corner and the
\* working copy's grid gives its shape
InWindow(p) ==
    /\ p[1] - offs[1] \in 0 .. work.array.nr - 1
    /\ p[2] - offs[2] \in 0 .. work.array.nc - 1

\* the placed source sample that lies over cell p of the target
Placed(p) == Read(heap, work.array, p[1] - offs[1], p[2] - offs[2])

\* C1: after a call that did not return early, every target cell in the
\* placed window holds max(its value before the call, the placed source
\* value) and every other target cell holds its value from before the call
C1_MaxMerge ==
    MergeDone =>
        /\ DOMAIN TCells = DOMAIN PreTCells
        /\ \A p \in DOMAIN TCells :
              TCells[p] = IF InWindow(p)
                          THEN Max(PreTCells[p], Placed(p))
                          ELSE PreTCells[p]

\* a merge in which the source won one cell, the target kept another against
\* a positive source sample, and a cell lay outside the window
C1_Witness ==
    /\ MergeDone
    /\ \E p \in DOMAIN TCells : InWindow(p) /\ TCells[p] > PreTCells[p]
    /\ \E p \in DOMAIN TCells :
          InWindow(p) /\ Placed(p) > 0 /\ PreTCells[p] > Placed(p)
    /\ \E p \in DOMAIN TCells : ~InWindow(p) /\ PreTCells[p] > 0

\* C2: when a pixel scale is zero the call leaves the target's grid, width,
\* height and six bounds as they were
C2_ZeroScaleNoop ==
    (pc \notin {"idle", "call"} /\ ZeroScale(PixelScale(pre.source, pre.target))) =>
        /\ target = pre.target
        /\ heap.tbuf = pre.heap.tbuf

\* a call that returned on a zero column scale while the row scale was not zero
C2_Witness ==
    /\ EarlyReturned
    /\ pixel_scale[2][1] = 0 /\ pixel_scale[1][1] # 0
    /\ calls = 2

\* C3: every completed call returns the target it was given
C3_ReturnsTarget == pc = "returned" => ret = "target"

\* the boxes do not overlap in x or do not overlap in y (touching counts)
NoOverlap(src, tgt) ==
    \/ src.xmax <= tgt.xmin \/ src.xmin >= tgt.xmax
    \/ src.ymax <= tgt.ymin \/ src.ymin >= tgt.ymax

Empty(ref) == ref.nr = 0 \/ ref.nc = 0

\* C4: when the boxes do not overlap the trimmed source or the placement
\* window is empty and the target grid is unchanged
C4_DisjointNoop ==
    (pc \in {"return", "returned"} /\ NoOverlap(pre.source, pre.target)) =>
        /\ heap.tbuf = pre.heap.tbuf
        /\ ret # "None" => (Empty(work.array) \/ Empty(subtarget))

\* C5: the scenario ends with 1500 in rows 1-2, columns 1-2 of the target
\* and 0 in its 12 other cells
InScenario ==
    /\ pc # "idle"
    /\ pre.target = ScenarioTarget
    /\ pre.source = ScenarioSource
    /\ pre.heap.sbuf = ScenarioFill
    /\ pre.heap.tbuf = NewBuffer(4, 4)

C5_Scenario ==
    (InScenario /\ pc = "returned") =>
        /\ DOMAIN TCells = (0 .. 3) \X (0 .. 3)
        /\ \A p \in DOMAIN TCells :
              TCells[p] = IF p[1] \in 1 .. 2 /\ p[2] \in 1 .. 2 THEN 1500 ELSE 0

C5_Witness == InScenario /\ pc = "returned" /\ ret = "target"

\* height and width agree with the grid
ShapeOK(img) == img.height = Shape(img.array)[1] /\ img.width = Shape(img.array)[2]

\* C6: target and source always, and the working copy after the resample
\* step, after the trim step and after the whole call, have height = rows
\* and width = columns of their grid
C6_ShapeInvariant ==
    /\ ShapeOK(target)
    /\ ShapeOK(source)
    /\ (pc \in {"resample", "trim_xmin", "place"} \/ MergeDone) => ShapeOK(work)

\* tgt's box contains src's box in x and y
Contains(tgt, src) ==
    /\ tgt.xmin <= src.xmin /\ tgt.xmax >= src.xmax
    /\ tgt.ymin <= src.ymin /\ tgt.ymax >= src.ymax

TrimPcs == {"trim_xmin", "trim_xmax", "trim_ymin", "trim_ymax", "refresh"}

\* C7: when the target's box contains the resampled source's box (the box
\* the call was given: copy and resample keep it), no step of the trim
\* changes the working copy (its grid, shape, bounds) or any sample
C7_TrimIdempotent ==
    [][(pc \in TrimPcs /\ Contains(pre.target, pre.source)) =>
          (work' = work /\ heap' = heap)]_vars

\* a trim that ran to its end on a contained source, one of whose edges lies
\* on the target's
C7_Witness ==
    /\ pc = "place"
    /\ Contains(pre.target, pre.source)
    /\ work.xmax = target.xmax
    /\ work.ymin = target.ymin
    /\ ~Empty(work.array)

\* the samples a buffer holds
Values(buf) == {buf.cells[p] : p \in DOMAIN buf.cells}

Flat(tgt) == tgt.zmax = tgt.zmin

\* C8: with a flat target z_scale is 1, the resampled samples are source
\* samples as they were, and the call goes on; otherwise z_scale is
\* (source.zmax - target.zmin) / (target.zmax - target.zmin)
C8_FlatFallback ==
    /\ pc \notin {"idle", "call"} =>
          IF Flat(pre.target)
          THEN z_scale[1] = z_scale[2]
          ELSE z_scale[1] * (pre.target.zmax - pre.target.zmin)
                 = z_scale[2] * (pre.source.zmax - pre.target.zmin)
    /\ (pc \in TrimPcs \cup {"place", "merge", "return"} /\ Flat(pre.target)) =>
          Values(heap.wbuf) \subseteq Values(heap.sbuf)
    /\ (pc = "returned" /\ Flat(pre.target)
            /\ ~ZeroScale(PixelScale(pre.source, pre.target))) =>
          (ret = "target" /\ work.array.buf = "wbuf" /\ subtarget.buf = "tbuf")

\* a merge onto a flat target that changed it
C8_Witness ==
    /\ MergeDone
    /\ Flat(pre.target)
    /\ heap.tbuf # pre.heap.tbuf

\* C9: each clip cuts at the index computed from the copy's current length
\* along the clipped axis and keeps the inner side: the left clip drops the
\* columns before trunc(cols * (t.xmin - s.xmin) / (s.xmax - s.xmin)), the
\* right clip keeps the columns below trunc(cols * (t.xmax - s.xmin) /
\* (s.xmax - s.xmin)), and likewise the lower and upper clips with rows and y
C9_TrimsCurrentShape ==
    [][/\ (pc = "trim_xmin" /\ target.xmin > work.xmin /\ target.xmin < work.xmax) =>
            work'.array.nc = work.array.nc -
                PyInt(work.array.nc * (target.xmin - work.xmin), work.xmax - work.xmin)
       /\ (pc = "trim_xmax" /\ target.xmax < work.xmax /\ target.xmax > work.xmin) =>
            work'.array.nc =
                PyInt(work.array.nc * (target.xmax - work.xmin), work.xmax - work.xmin)
       /\ (pc = "trim_ymin" /\ target.ymin > work.ymin /\ target.ymin < work.ymax) =>
            work'.array.nr = work.array.nr -
                PyInt(work.array.nr * (target.ymin - work.ymin), work.ymax - work.ymin)
       /\ (pc = "trim_ymax" /\ target.ymax < work.ymax /\ target.ymax > work.ymin) =>
            work'.array.nr =
                PyInt(work.array.nr * (target.ymax - work.ymin), work.ymax - work.ymin)
      ]_vars

\* C10: the source tile and its samples are never modified
C10_SourceUntouched ==
    /\ source = pre.source
    /\ heap.sbuf = pre.heap.sbuf

\* a later call that changed the target through a working copy whose grid
\* had left the source's buffer
C10_Witness ==
    /\ MergeDone
    /\ calls >= 2
    /\ heap.tbuf # pre.heap.tbuf
    /\ work.array.buf # source.array.buf

====
